---------------------------- MODULE Spec2Model ----------------------------
(***************************************************************************)
(* Bolt download engine: DownloadEngine (supervisor, control calls),       *)
(* Segment (worker thread, work stealing primitives), FileWriter and the   *)
(* resume meta file.                                                       *)
(*                                                                         *)
(* Byte quantities are scaled down so that the state space is finite; the  *)
(* scaled program constants keep their source names and say so.  Unsigned  *)
(* 64-bit arithmetic of the source is arithmetic modulo Word.              *)
(***************************************************************************)
EXTENDS Integers, Sequences, FiniteSets, TLC

(***************************************************************************)
(* Bounds of the model.                                                    *)
(***************************************************************************)
MaxSegs   == 3     \* longest segment table the model lets a split build
MaxBudget == 3     \* steps of the environment: public operations called plus events
MaxFaults == 1     \* events among them: a fault, a timeout, a slow segment, a timer
MaxEngines == 2    \* engine objects constructed over one output path (process runs)
ChunkSize == 3     \* most bytes libcurl hands to one write_callback call

(***************************************************************************)
(* Program constants (scaled).                                             *)
(***************************************************************************)
Word             == 4096 \* 2^64 in the source: range of std::uint64_t
MIN_SEGMENT_SIZE == 2   \* config.hpp: 256 * 1024
MiB              == 16  \* 1024 * 1024 in create_segments' thresholds
MIN_STEAL        == 2   \* attempt_work_stealing passes min_bytes = 1'000'000
STEAL_ALIGN      == 2   \* can_steal aligns with & ~0xFFF (4096)
MAX_RETRIES      == 3   \* Segment::start, constexpr int MAX_RETRIES = 3
CFG_MAX_SEGMENTS == 16  \* DownloadConfig::MAX_SEGMENTS, default of max_segments
ERR_BODY_LEN     == 1   \* bytes of body an HTTP error response carries

U(x)      == x % Word
Sub(a, b) == (a - b + Word) % Word
Min2(a, b) == IF a < b THEN a ELSE b

(***************************************************************************)
(* The remote resources of the model: actual length, whether HEAD reports  *)
(* the length (content_length 0 = unknown otherwise) and whether the       *)
(* server honours Range and advertises Accept-Ranges.                      *)
(***************************************************************************)
Resources ==
    { [len |-> 10, known |-> TRUE,  ranges |-> TRUE],
      [len |-> 2,  known |-> FALSE, ranges |-> FALSE],
      [len |-> 1,  known |-> TRUE,  ranges |-> TRUE] }

\* The meta file: absent, or present with what DownloadMeta::load makes of it
\* (ok = load succeeds).
NoMeta  == [present |-> FALSE]
ErrByte == -1      \* a byte of an HTTP error body
Url     == "u"

VARIABLES
    res,              \* the remote resource being downloaded
    state,            \* DownloadEngine::state_
    file_size,        \* DownloadEngine::file_size_
    supports_ranges,  \* DownloadEngine::supports_ranges_
    segments,         \* DownloadEngine::segments_ (Segment fields)
    wk,               \* Segment::segment_thread_ of each segment, and its transfer
    progress,         \* DownloadEngine::progress_
    sup,              \* DownloadEngine::download_thread_ and its position in download_loop
    fw,               \* FileWriter: closed_, file_ and the file's bytes on disk
    meta,             \* the <output>.boltmeta file
    usr,              \* the thread calling the engine's public operations
    ret,              \* result of the last public operation that returned
    budget,           \* steps of the environment left (public calls and events)
    faults,           \* events left
    engines,          \* engine objects constructed so far
    mgr,              \* DownloadManager: next_id_ and downloads_
    probe             \* operand and result of an operation exercised on its own

vars == <<res, state, file_size, supports_ranges, segments, wk, progress,
          sup, fw, meta, usr, ret, budget, faults, engines, mgr, probe>>

SegIdx == 1..Len(segments)

\* A public operation is called / an event happens / neither.
TakeCall  == budget > 0 /\ budget' = budget - 1 /\ UNCHANGED faults
TakeEvent == budget > 0 /\ faults > 0 /\ budget' = budget - 1 /\ faults' = faults - 1
TakeBoth  == budget > 1 /\ faults > 0 /\ budget' = budget - 2 /\ faults' = faults - 1
NoEvent   == UNCHANGED <<budget, faults>>

(***************************************************************************)
(* Segment::Segment(id, url, offset, size, file_offset)                    *)
(***************************************************************************)
NewSegment(id, offset, size, file_offset) ==
    [ id |-> id, offset |-> offset, size |-> size, file_offset |-> file_offset,
      state |-> "pending", downloaded |-> 0, write_offset |-> 0,
      total_bytes |-> size, stop |-> FALSE, error |-> "none" ]

\* result: what curl_easy_perform returned when an attempt ended in an error
NoThread == [pc |-> "none", rpos |-> 0, left |-> 0, http |-> 0, retries |-> 0,
             range |-> << >>, result |-> "none"]

Alive(w) == w.pc \in {"init", "xfer", "retry"}

\* reported: the engine state at the last invocation of callback_ (the
\* observer is taken to be set), "none" before the first.
ProgressZero ==
    [total_bytes |-> 0, downloaded_bytes |-> 0, pnum |-> 0, pden |-> 1,
     reported |-> "none"]

SupNone == [pc |-> "none", stop |-> FALSE, idx |-> 0]
UsrIdle == [pc |-> "idle", idx |-> 0, destroy |-> FALSE]

\* The DownloadManager as constructed: next_id_{1}, an empty downloads_ map.
\* issued, spent and removed record the ids returned by create_download, the
\* ids taken by a create_download that failed, and the ids whose engine was
\* removed; calls counts create_download calls; last is the last operation.
\* mutex is the caller whose std::unique_lock owns mutex_ (0: nobody), entered
\* the manager call whose engine method is running.
NoManager == [ next_id |-> 1, downloads |-> << >>,
               issued |-> {}, spent |-> {}, removed |-> {},
               calls |-> 0, last |-> [op |-> "none", id |-> 0, ok |-> TRUE],
               mutex |-> 0, entered |-> [op |-> "none", id |-> 0, ok |-> TRUE] ]
NoProbe   == [op |-> "none"]

(***************************************************************************)
(* FileWriter as constructed: file_ null, closed_ as fresh says.           *)
(***************************************************************************)
FreshWriter(closed0, data) ==
    [closed |-> closed0, closed0 |-> closed0, open |-> FALSE, data |-> data]

EmptyFile == [p \in {} |-> 0]

EngineInit(closed0) ==
    /\ res \in Resources
    /\ state = "idle"
    /\ file_size = 0
    /\ supports_ranges = TRUE
    /\ segments = <<>>
    /\ wk = <<>>
    /\ progress = ProgressZero
    /\ sup = SupNone
    /\ fw = FreshWriter(closed0, EmptyFile)
    /\ meta = NoMeta
    /\ usr = UsrIdle
    /\ ret = [op |-> "none", val |-> "none"]
    /\ budget = MaxBudget
    /\ faults = MaxFaults
    /\ engines = 1
    /\ mgr = NoManager
    /\ probe = NoProbe

(***************************************************************************)
(* Init: the engine after construction; file_writer.hpp:51 initialises     *)
(* closed_ to false.                                                       *)
(***************************************************************************)
Init == EngineInit(FALSE)

(***************************************************************************)
(* InitOpen: the same engine with a writer whose closed_ flag starts true, *)
(* the value FileWriter::open requires before it opens anything.  With the *)
(* header's initial value (Init) open() returns file_exists on the fresh   *)
(* writer, prepare() ends failed and no segment is ever created.           *)
(***************************************************************************)
InitOpen == EngineInit(TRUE)


(***************************************************************************)
(* DownloadEngine::create_segments                                         *)
(***************************************************************************)
\* the table of counts as it would be with the comparisons strict
SegCountStrict(fs) ==
    IF fs > 100 * MiB THEN 16
    ELSE IF fs > 50 * MiB THEN 12
    ELSE IF fs > 10 * MiB THEN 6
    ELSE IF fs > MiB THEN 4
    ELSE 2

SegCount(fs) ==
    IF fs >= 100 * MiB THEN 16
    ELSE IF fs >= 50 * MiB THEN 12
    ELSE IF fs >= 10 * MiB THEN 6
    ELSE IF fs >= MiB THEN 4
    ELSE 2

create_segments(fs, ranges) ==
    IF ~ranges \/ fs < MIN_SEGMENT_SIZE
    THEN << NewSegment(0, 0, fs, 0) >>
    ELSE LET seg_size == (fs + SegCount(fs) - 1) \div SegCount(fs)
             n        == (fs + seg_size - 1) \div seg_size
         IN  [ k \in 1..n |->
                 NewSegment(k - 1, (k - 1) * seg_size,
                            Min2(seg_size, fs - (k - 1) * seg_size),
                            (k - 1) * seg_size) ]

(***************************************************************************)
(* DownloadEngine::save_meta / DownloadEngine::prepare's restore           *)
(***************************************************************************)
MetaOf(segs, fs) ==
    [ present |-> TRUE, ok |-> TRUE, url |-> Url, file_size |-> fs,
      segments |-> [ i \in 1..Len(segs) |->
                       [ id |-> segs[i].id, offset |-> segs[i].offset,
                         size |-> segs[i].size,
                         file_offset |-> segs[i].file_offset,
                         downloaded |-> segs[i].downloaded ] ] ]

\* the restore condition as it would be without the comparison of the sizes
MetaMatchesUrlOnly(m, fs) == m.present /\ m.ok /\ m.url = Url

\* DownloadMeta::exists, load succeeded, same url, same file_size
MetaMatches(m, fs) == m.present /\ m.ok /\ m.url = Url /\ m.file_size = fs

RestoreSegments(m) ==
    [ i \in 1..Len(m.segments) |->
        [ NewSegment(m.segments[i].id, m.segments[i].offset,
                     m.segments[i].size, m.segments[i].file_offset)
          EXCEPT !.downloaded = m.segments[i].downloaded,
                 !.write_offset = m.segments[i].downloaded ] ]

(***************************************************************************)
(* DownloadEngine::update_progress (the aggregate written under mutex_)    *)
(***************************************************************************)
RECURSIVE SumDownloaded(_, _)
SumDownloaded(segs, i) ==
    IF i > Len(segs) THEN 0
    ELSE U(segs[i].downloaded + SumDownloaded(segs, i + 1))

update_progress(prog, segs, st) ==
    LET td == SumDownloaded(segs, 1)
    IN  [ prog EXCEPT !.downloaded_bytes = td,
                      !.pnum = IF prog.total_bytes > 0 THEN td * 100 ELSE @,
                      !.pden = IF prog.total_bytes > 0 THEN prog.total_bytes ELSE @,
                      !.reported = st ]

\* DownloadEngine::calculate_eta for a total speed of speed_bps: the value
\* stored in progress_.eta_seconds.
calculate_eta(prog, speed_bps) ==
    IF speed_bps = 0 THEN 0
    ELSE Sub(prog.total_bytes, prog.downloaded_bytes) \div speed_bps

(***************************************************************************)
(* Segment::can_steal, steal_bytes, add_bytes, reduce_range                *)
(***************************************************************************)
can_steal(seg, min_steal) ==
    IF seg.state # "downloading" THEN 0
    ELSE LET remaining == Sub(seg.size, seg.downloaded)
         IN  IF remaining <= min_steal * 2 THEN 0
             ELSE ((remaining \div 2) \div STEAL_ALIGN) * STEAL_ALIGN

steal_bytes(seg, bytes) == [seg EXCEPT !.size = Sub(seg.size, bytes)]

add_bytes(seg, bytes) == [seg EXCEPT !.size = U(seg.size + bytes)]

reduce_range(seg, new_end) ==
    IF new_end > seg.offset /\ new_end - seg.offset < seg.size
    THEN [seg EXCEPT !.size = new_end - seg.offset,
                     !.total_bytes = new_end - seg.offset]
    ELSE seg

(***************************************************************************)
(* find_steal_target: the first segment, in table order, with the largest  *)
(* can_steal among the downloading segments other than the requester.      *)
(***************************************************************************)
Removable(segs, j, requester_id, min_bytes) ==
    IF segs[j].id = requester_id \/ segs[j].state # "downloading" THEN 0
    ELSE can_steal(segs[j], min_bytes)

find_steal_target(segs, requester_id, min_bytes) ==
    LET J    == 1..Len(segs)
        most == IF J = {} THEN 0
                ELSE CHOOSE m \in { Removable(segs, j, requester_id, min_bytes) : j \in J } :
                       \A j \in J : Removable(segs, j, requester_id, min_bytes) <= m
        best == CHOOSE j \in J :
                   /\ Removable(segs, j, requester_id, min_bytes) = most
                   /\ \A k \in J : k < j =>
                        Removable(segs, k, requester_id, min_bytes) < most
    IN  IF most = 0 THEN [found |-> FALSE, id |-> 0, bytes |-> 0]
        ELSE [found |-> TRUE, id |-> segs[best].id, bytes |-> most]

(***************************************************************************)
(* DownloadEngine::attempt_work_stealing.  slow is the set of table        *)
(* positions whose segment reports speed_bps < 100'000 in this tick.       *)
(***************************************************************************)
StealOne(segs, r) ==
    LET t == find_steal_target(segs, segs[r].id, MIN_STEAL)
    IN  IF ~t.found THEN segs
        ELSE LET target == CHOOSE j \in 1..Len(segs) :
                              /\ segs[j].id = t.id
                              /\ \A k \in 1..Len(segs) : k < j => segs[k].id # t.id
                 s1 == [segs EXCEPT ![target] = steal_bytes(@, t.bytes)]
             IN  [s1 EXCEPT ![r] = add_bytes(@, t.bytes)]

RECURSIVE StealLoop(_, _, _)
StealLoop(segs, r, slow) ==
    IF r > Len(segs) THEN segs
    ELSE IF segs[r].state = "downloading" /\ r \in slow
         THEN StealLoop(StealOne(segs, r), r + 1, slow)
         ELSE StealLoop(segs, r + 1, slow)

attempt_work_stealing(segs, slow) ==
    IF Len(segs) < 2 THEN segs ELSE StealLoop(segs, 1, slow)

(***************************************************************************)
(* DownloadEngine::dynamic_segmentation.  Yields the table after the call; *)
(* an appended segment has been started (pending -> connecting).           *)
(***************************************************************************)
Remaining(seg) == Sub(seg.total_bytes, seg.downloaded)

ActiveCount(segs) ==
    Cardinality({ i \in 1..Len(segs) : segs[i].state \in {"downloading", "connecting"} })

MaxRemaining(segs) ==
    LET D == { i \in 1..Len(segs) : segs[i].state = "downloading" }
    IN  IF D = {} THEN 0
        ELSE CHOOSE m \in { Remaining(segs[i]) : i \in D } :
               \A i \in D : Remaining(segs[i]) <= m

Largest(segs) ==
    LET D == { i \in 1..Len(segs) : segs[i].state = "downloading" }
    IN  CHOOSE i \in D :
          /\ Remaining(segs[i]) = MaxRemaining(segs)
          /\ \A k \in D : k < i => Remaining(segs[k]) < MaxRemaining(segs)

WillSplit(segs, max_segments) ==
    /\ ActiveCount(segs) < max_segments
    /\ MaxRemaining(segs) > MIN_SEGMENT_SIZE * 2
    /\ MaxRemaining(segs) \div 2 >= MIN_SEGMENT_SIZE

dynamic_segmentation(segs, max_segments) ==
    IF ~WillSplit(segs, max_segments) THEN segs
    ELSE LET l           == Largest(segs)
             split_bytes == Remaining(segs[l]) \div 2
             new_end     == U(segs[l].offset + segs[l].downloaded + split_bytes)
             new_seg     == [ NewSegment(Len(segs), new_end, split_bytes, new_end)
                              EXCEPT !.state = "connecting" ]
         IN  Append([segs EXCEPT ![l] = reduce_range(@, new_end)], new_seg)

(***************************************************************************)
(* The ranged GET of one transfer attempt (Segment::start's range header)  *)
(* and what the server sends for it.                                       *)
(***************************************************************************)
StartByte(seg) == U(seg.offset + seg.downloaded)
EndByte(seg)   == Sub(U(seg.offset + seg.size), 1)

\* an unsigned integer in decimal (std::to_string, operator<<)
Digits == <<"0", "1", "2", "3", "4", "5", "6", "7", "8", "9">>

RECURSIVE ToDec(_)
ToDec(n) ==
    IF n < 10 THEN <<Digits[n + 1]>>
    ELSE ToDec(n \div 10) \o <<Digits[(n % 10) + 1]>>

\* the range as it would be if every attempt asked from the segment's start
RangeFromOffset(seg) == ToDec(seg.offset) \o <<"-">> \o ToDec(EndByte(seg))

\* std::to_string(start_byte) + "-" + std::to_string(end_byte)
Range(seg) == ToDec(StartByte(seg)) \o <<"-">> \o ToDec(EndByte(seg))

ServerReply(seg, r) ==
    IF ~r.ranges
    THEN [rpos |-> 0, left |-> r.len, http |-> 200]
    ELSE IF StartByte(seg) >= r.len
         THEN [rpos |-> 0, left |-> ERR_BODY_LEN, http |-> 416]
         ELSE [rpos |-> StartByte(seg),
               left |-> Min2(EndByte(seg), r.len - 1) - StartByte(seg) + 1,
               http |-> 206]

(***************************************************************************)
(* FileWriter::write of n bytes at file position pos; the bytes are those  *)
(* of the response body: resource bytes rpos.. (value = index + 1) or an   *)
(* error body.                                                             *)
(***************************************************************************)
WriteBytes(data, pos, n, rpos, http) ==
    LET P == { U(pos + k) : k \in 0..(n - 1) }
    IN  [ p \in (DOMAIN data) \cup P |->
            IF p \in P
            THEN (IF http >= 400 THEN ErrByte ELSE rpos + Sub(p, pos) + 1)
            ELSE data[p] ]


(***************************************************************************)
(* Segment::start on the caller's side: compare-exchange pending ->        *)
(* connecting and the spawn of segment_thread_.                            *)
(***************************************************************************)
Spawned == [NoThread EXCEPT !.pc = "init"]

StartPending(segs) ==
    [ i \in 1..Len(segs) |->
        IF segs[i].state = "pending" THEN [segs[i] EXCEPT !.state = "connecting"]
        ELSE segs[i] ]

SpawnPending(segs, w) ==
    [ i \in 1..Len(segs) |->
        IF segs[i].state = "pending" THEN Spawned ELSE w[i] ]

LoopThread == [pc |-> "start", stop |-> FALSE, idx |-> 0]

(***************************************************************************)
(* DownloadEngine::start, with prepare() when the table is empty.          *)
(***************************************************************************)
\* start() as it would be without the check for a running download (the
\* variant C10 is tested against).
StartRejectedUnlessRunning == state \in {"completed", "failed", "cancelled"}

StartRejected == state \in {"downloading", "completed", "failed", "cancelled"}

PrepareFailed(segs) ==
    /\ state' = "failed"
    /\ segments' = segs
    /\ wk' = [i \in 1..Len(segs) |-> NoThread]
    /\ ret' = [op |-> "start", val |-> "error"]
    /\ UNCHANGED <<progress, sup, meta, usr, engines, mgr, probe>>

EngineStart ==
    /\ usr.pc = "idle"
    /\ IF StartRejected
       THEN /\ ret' = [op |-> "start", val |-> "error"]
            /\ TakeCall
            /\ UNCHANGED <<res, state, file_size, supports_ranges, segments, wk,
                           progress, sup, fw, meta, usr, engines, mgr, probe>>
       ELSE IF segments = <<>>
       THEN \* prepare()
            \/ /\ TakeBoth              \* HEAD fails
               /\ PrepareFailed(<<>>)
               /\ UNCHANGED <<res, file_size, supports_ranges, fw>>
            \/ LET fs       == IF res.known THEN res.len ELSE 0
                   ranges   == res.ranges /\ fs # 0
                   resuming == MetaMatches(meta, fs)
                   restored == IF resuming THEN RestoreSegments(meta) ELSE <<>>
               IN  /\ file_size' = fs
                   /\ supports_ranges' = ranges
                   /\ UNCHANGED res
                   /\ IF ~fw.closed
                      THEN \* FileWriter::open: file_exists
                           /\ PrepareFailed(restored)
                           /\ TakeCall
                           /\ UNCHANGED fw
                      ELSE \/ /\ TakeBoth        \* AsyncFile::open fails
                              /\ PrepareFailed(restored)
                              /\ UNCHANGED fw
                           \/ /\ fw' = [fw EXCEPT !.closed = FALSE, !.open = TRUE,
                                                  !.data = EmptyFile]
                              /\ segments' = IF resuming THEN restored
                                             ELSE create_segments(fs, ranges)
                              /\ wk' = [i \in 1..Len(segments') |-> NoThread]
                              /\ progress' = [progress EXCEPT !.total_bytes = fs]
                              /\ state' = "downloading"
                              /\ sup' = LoopThread
                              /\ ret' = [op |-> "start", val |-> "ok"]
                              /\ TakeCall
                              /\ UNCHANGED <<meta, usr, engines, mgr, probe>>
       ELSE \* segments kept from an earlier run of this engine
            /\ state' = "downloading"
            /\ IF sup.pc = "none"
               THEN /\ sup' = LoopThread
                    /\ ret' = [op |-> "start", val |-> "ok"]
                    /\ UNCHANGED usr
               ELSE \* assigning download_thread_ stops and joins the old loop
                    /\ sup' = [sup EXCEPT !.stop = TRUE]
                    /\ usr' = [usr EXCEPT !.pc = "start_join"]
                    /\ UNCHANGED ret
            /\ TakeCall
            /\ UNCHANGED <<res, file_size, supports_ranges, segments, wk,
                           progress, fw, meta, engines, mgr, probe>>

\* The end of start() on an engine that already had a loop thread: the old
\* thread has returned and is joined, the new loop runs.  (The source starts
\* the new thread before the assignment joins the old one; the old one has
\* its stop requested and only finishes its current turn.)
EngineStartJoin ==
    /\ usr.pc = "start_join"
    /\ sup.pc = "done"
    /\ sup' = LoopThread
    /\ usr' = UsrIdle
    /\ ret' = [op |-> "start", val |-> "ok"]
    /\ UNCHANGED <<res, state, file_size, supports_ranges, segments, wk,
                   progress, fw, meta, budget, faults, engines, mgr, probe>>

(***************************************************************************)
(* DownloadEngine::pause: the load of state_, then the store of paused,    *)
(* then save_meta and request_stop.                                        *)
(***************************************************************************)
PauseApplies == state = "downloading"

EnginePause ==
    /\ usr.pc = "idle"
    /\ TakeCall
    /\ IF PauseApplies
       THEN /\ usr' = [usr EXCEPT !.pc = "pause_store"]
            /\ UNCHANGED ret
       ELSE /\ ret' = [op |-> "pause", val |-> "void"]
            /\ UNCHANGED usr
    /\ UNCHANGED <<res, state, file_size, supports_ranges, segments, wk,
                   progress, sup, fw, meta, engines, mgr, probe>>

EnginePauseStore ==
    /\ usr.pc = "pause_store"
    /\ state' = "paused"
    /\ usr' = [usr EXCEPT !.pc = "pause_save"]
    /\ UNCHANGED <<res, file_size, supports_ranges, segments, wk, progress,
                   sup, fw, meta, ret, budget, faults, engines, mgr, probe>>

EnginePauseSave ==
    /\ usr.pc = "pause_save"
    /\ meta' = MetaOf(segments, file_size)
    /\ sup' = IF sup.pc = "none" THEN sup ELSE [sup EXCEPT !.stop = TRUE]
    /\ usr' = UsrIdle
    /\ ret' = [op |-> "pause", val |-> "void"]
    /\ UNCHANGED <<res, state, file_size, supports_ranges, segments, wk,
                   progress, fw, budget, faults, engines, mgr, probe>>

(***************************************************************************)
(* DownloadEngine::resume and Segment::resume for the stalled segments.    *)
(***************************************************************************)
ResumeApplies == state = "paused"

Stalled(segs) == { i \in 1..Len(segs) : segs[i].state = "stalled" }

EngineResume ==
    /\ usr.pc = "idle"
    /\ TakeCall
    /\ IF ~ResumeApplies
       THEN /\ ret' = [op |-> "resume", val |-> "error"]
            /\ UNCHANGED <<state, segments, usr>>
       ELSE /\ state' = "downloading"
            /\ segments' = [ i \in SegIdx |->
                               IF i \in Stalled(segments)
                               THEN [segments[i] EXCEPT !.stop = TRUE]
                               ELSE segments[i] ]
            /\ usr' = [usr EXCEPT !.pc = "resume_join"]
            /\ UNCHANGED ret
    /\ UNCHANGED <<res, file_size, supports_ranges, wk, progress, sup, fw,
                   meta, engines, mgr, probe>>

\* The stalled segments' threads are joined and restarted; the loop thread
\* is started only if download_thread_ is not joinable.
EngineResumeJoin ==
    /\ usr.pc = "resume_join"
    /\ \A i \in Stalled(segments) : ~Alive(wk[i])
    /\ segments' = [ i \in SegIdx |->
                       IF i \in Stalled(segments)
                       THEN [segments[i] EXCEPT !.stop = FALSE, !.state = "connecting"]
                       ELSE segments[i] ]
    /\ wk' = [ i \in SegIdx |-> IF i \in Stalled(segments) THEN Spawned ELSE wk[i] ]
    /\ sup' = IF sup.pc = "none" THEN LoopThread ELSE sup
    /\ usr' = UsrIdle
    /\ ret' = [op |-> "resume", val |-> "ok"]
    /\ UNCHANGED <<res, state, file_size, supports_ranges, progress, fw,
                   meta, budget, faults, engines, mgr, probe>>

(***************************************************************************)
(* DownloadEngine::cancel and ~DownloadEngine: stop and join the loop,     *)
(* Segment::cancel for each segment in table order, close the file.        *)
(***************************************************************************)
Signal(segs, i) ==
    IF i \in 1..Len(segs) THEN [segs EXCEPT ![i].stop = TRUE] ELSE segs

EngineCancel ==
    /\ usr.pc = "idle"
    /\ TakeCall
    /\ state' = "cancelled"
    /\ sup' = IF sup.pc = "none" THEN sup ELSE [sup EXCEPT !.stop = TRUE]
    /\ usr' = [pc |-> "join_loop", idx |-> 0, destroy |-> FALSE]
    /\ UNCHANGED <<res, file_size, supports_ranges, segments, wk, progress,
                   fw, meta, ret, engines, mgr, probe>>

EngineDestroy ==
    /\ usr.pc = "idle"
    /\ TakeCall
    /\ engines < MaxEngines
    /\ sup' = IF sup.pc = "none" THEN sup ELSE [sup EXCEPT !.stop = TRUE]
    /\ usr' = [pc |-> "join_loop", idx |-> 0, destroy |-> TRUE]
    /\ UNCHANGED <<res, state, file_size, supports_ranges, segments, wk,
                   progress, fw, meta, ret, engines, mgr, probe>>

TeardownJoinLoop ==
    /\ usr.pc = "join_loop"
    /\ sup.pc \in {"none", "done"}
    /\ sup' = SupNone
    /\ segments' = Signal(segments, 1)
    /\ usr' = [usr EXCEPT !.pc = "cancel_segs", !.idx = 1]
    /\ UNCHANGED <<res, state, file_size, supports_ranges, wk, progress,
                   fw, meta, ret, budget, faults, engines, mgr, probe>>

\* Segment::cancel as it would be without the join of segment_thread_ (the
\* variant C7 is tested against).
TeardownCancelSegNoJoin ==
    /\ usr.pc = "cancel_segs"
    /\ usr.idx \in SegIdx
    /\ segments' = Signal([segments EXCEPT ![usr.idx].state = "cancelled"],
                          usr.idx + 1)
    /\ usr' = [usr EXCEPT !.idx = usr.idx + 1]
    /\ UNCHANGED <<res, state, file_size, supports_ranges, wk, progress, sup,
                   fw, meta, ret, budget, faults, engines, mgr, probe>>

\* Segment::cancel of segment usr.idx after its stop flag was set: join, then
\* the store of cancelled; the next segment's stop flag is set.
TeardownCancelSeg ==
    /\ usr.pc = "cancel_segs"
    /\ usr.idx \in SegIdx
    /\ ~Alive(wk[usr.idx])
    /\ segments' = Signal([segments EXCEPT ![usr.idx].state = "cancelled"],
                          usr.idx + 1)
    /\ wk' = [wk EXCEPT ![usr.idx] = NoThread]
    /\ usr' = [usr EXCEPT !.idx = usr.idx + 1]
    /\ UNCHANGED <<res, state, file_size, supports_ranges, progress, sup,
                   fw, meta, ret, budget, faults, engines, mgr, probe>>

CloseFile(f) ==
    IF f.open THEN [f EXCEPT !.open = FALSE, !.closed = TRUE] ELSE f

TeardownClose ==
    /\ usr.pc = "cancel_segs"
    /\ usr.idx > Len(segments)
    /\ IF usr.destroy
       THEN \* the engine is gone; the next process constructs a new one
            /\ state' = "idle"
            /\ file_size' = 0
            /\ supports_ranges' = TRUE
            /\ segments' = <<>>
            /\ wk' = <<>>
            /\ progress' = ProgressZero
            /\ fw' = FreshWriter(fw.closed0, fw.data)
            /\ ret' = [op |-> "none", val |-> "none"]
            /\ engines' = engines + 1
            /\ UNCHANGED <<mgr, probe>>
       ELSE /\ fw' = CloseFile(fw)
            /\ ret' = [op |-> "cancel", val |-> "void"]
            /\ UNCHANGED <<state, file_size, supports_ranges, segments, wk,
                           progress, engines, mgr, probe>>
    /\ usr' = UsrIdle
    /\ UNCHANGED <<res, sup, meta, budget, faults>>


(***************************************************************************)
(* DownloadEngine::download_loop, one action per phase of the loop.        *)
(***************************************************************************)
\* Start all pending segments.
SupStart ==
    /\ sup.pc = "start"
    /\ segments' = StartPending(segments)
    /\ wk' = SpawnPending(segments, wk)
    /\ sup' = [sup EXCEPT !.pc = "save"]
    /\ UNCHANGED <<res, state, file_size, supports_ranges, progress, fw, meta,
                   usr, ret, budget, faults, engines, mgr, probe>>

\* Save the initial meta.
SupSave ==
    /\ sup.pc = "save"
    /\ meta' = MetaOf(segments, file_size)
    /\ sup' = [sup EXCEPT !.pc = "check"]
    /\ UNCHANGED <<res, state, file_size, supports_ranges, segments, wk,
                   progress, fw, usr, ret, budget, faults, engines, mgr, probe>>

LoopContinues == ~sup.stop /\ state = "downloading"

\* The while condition, then update_progress().
SupCheck ==
    /\ sup.pc = "check"
    /\ IF LoopContinues
       THEN /\ progress' = update_progress(progress, segments, state)
            /\ sup' = [sup EXCEPT !.pc = "monitor", !.idx = 1]
       ELSE /\ sup' = [sup EXCEPT !.pc = "done"]
            /\ UNCHANGED progress
    /\ UNCHANGED <<res, state, file_size, supports_ranges, segments, wk, fw,
                   meta, usr, ret, budget, faults, engines, mgr, probe>>

\* monitor_segments: is_stalled(STALL_TIMEOUT_SEC) is true of segment i.
SupMonitorDetect(i) ==
    /\ sup.pc = "monitor"
    /\ i \in SegIdx /\ i >= sup.idx
    /\ segments[i].state = "downloading"
    /\ TakeEvent
    /\ sup' = [sup EXCEPT !.pc = "mark", !.idx = i]
    /\ UNCHANGED <<res, state, file_size, supports_ranges, segments, wk,
                   progress, fw, meta, usr, ret, engines, mgr, probe>>

\* seg->state(SegmentState::stalled)
SupMark ==
    /\ sup.pc = "mark"
    /\ segments' = [segments EXCEPT ![sup.idx].state = "stalled"]
    /\ sup' = [sup EXCEPT !.pc = "resume"]
    /\ UNCHANGED <<res, state, file_size, supports_ranges, wk, progress, fw,
                   meta, usr, ret, budget, faults, engines, mgr, probe>>

\* Segment::resume: the state check and the store of stop_requested_.
SupResume ==
    /\ sup.pc = "resume"
    /\ IF segments[sup.idx].state = "stalled"
       THEN /\ segments' = [segments EXCEPT ![sup.idx].stop = TRUE]
            /\ sup' = [sup EXCEPT !.pc = "join"]
       ELSE /\ sup' = [sup EXCEPT !.pc = "monitor", !.idx = sup.idx + 1]
            /\ UNCHANGED segments
    /\ UNCHANGED <<res, state, file_size, supports_ranges, wk, progress, fw,
                   meta, usr, ret, budget, faults, engines, mgr, probe>>

\* Segment::resume after the join: reset, state(pending), start().
SupJoin ==
    /\ sup.pc = "join"
    /\ ~Alive(wk[sup.idx])
    /\ segments' = [segments EXCEPT ![sup.idx].stop = FALSE,
                                    ![sup.idx].state = "connecting"]
    /\ wk' = [wk EXCEPT ![sup.idx] = Spawned]
    /\ sup' = [sup EXCEPT !.pc = "monitor", !.idx = sup.idx + 1]
    /\ UNCHANGED <<res, state, file_size, supports_ranges, progress, fw,
                   meta, usr, ret, budget, faults, engines, mgr, probe>>

CountState(segs, st) == Cardinality({ i \in 1..Len(segs) : segs[i].state = st })

AllCompleted(segs) == CountState(segs, "completed") = Len(segs)

\* failed as soon as one segment is failed, whatever the others do
SomeFailed(segs) == CountState(segs, "failed") > 0

AllDoneSomeFailed(segs) ==
    /\ CountState(segs, "failed") > 0
    /\ CountState(segs, "completed") + CountState(segs, "failed") = Len(segs)

\* dynamic_segmentation as the loop calls it; the table holds MaxSegs at most.
Split(segs) ==
    IF Len(segs) < MaxSegs THEN dynamic_segmentation(segs, CFG_MAX_SEGMENTS) ELSE segs

\* The rest of one turn of the loop once monitor_segments found no (further)
\* stalled segment: attempt_work_stealing (config_.work_stealing defaults to
\* true), dynamic_segmentation, the completion check with the terminal store
\* and its final update_progress, or else the periodic save_meta (when
\* META_SAVE_INTERVAL has elapsed) and the sleep.
SupTick ==
    /\ sup.pc = "monitor"
    /\ \E slow \in SUBSET { i \in SegIdx : segments[i].state = "downloading" },
          save \in BOOLEAN :
          LET segs == Split(attempt_work_stealing(segments, slow))
          IN  /\ ~(slow # {} /\ save)
              /\ IF slow # {} \/ save THEN TakeEvent ELSE NoEvent
              /\ segments' = segs
              /\ wk' = IF Len(segs) > Len(segments) THEN Append(wk, Spawned) ELSE wk
              /\ IF AllCompleted(segs)
                 THEN /\ ~save
                      /\ state' = "completed"
                      /\ progress' = update_progress(progress, segs, "completed")
                      /\ sup' = [sup EXCEPT !.pc = "delete"]
                      /\ UNCHANGED meta
                 ELSE IF AllDoneSomeFailed(segs)
                 THEN /\ ~save
                      /\ state' = "failed"
                      /\ progress' = update_progress(progress, segs, "failed")
                      /\ sup' = [sup EXCEPT !.pc = "done"]
                      /\ UNCHANGED meta
                 ELSE /\ meta' = IF save THEN MetaOf(segs, file_size) ELSE meta
                      /\ sup' = [sup EXCEPT !.pc = "check"]
                      /\ UNCHANGED <<state, progress>>
    /\ UNCHANGED <<res, file_size, supports_ranges, fw, usr, ret, engines, mgr, probe>>

\* delete_meta after the store of completed, then the loop ends.
SupDelete ==
    /\ sup.pc = "delete"
    /\ meta' = NoMeta
    /\ sup' = [sup EXCEPT !.pc = "done"]
    /\ UNCHANGED <<res, state, file_size, supports_ranges, segments, wk,
                   progress, fw, usr, ret, budget, faults, engines, mgr, probe>>

(***************************************************************************)
(* The worker thread of Segment::start (the lambda), write_callback and    *)
(* progress_callback.                                                      *)
(***************************************************************************)
ErrorOf(http) ==
    IF http = 416 THEN "invalid_range"
    ELSE IF http = 404 THEN "not_found"
    ELSE "server_error"

Exited == [NoThread EXCEPT !.pc = "exited"]

\* The ranged request of an attempt: what the server answers, or an error
\* status the environment injects.
Replies(seg) == {ServerReply(seg, res)} \cup
    (IF budget > 0 /\ faults > 0
     THEN { [rpos |-> 0, left |-> ERR_BODY_LEN, http |-> h] : h \in {401, 403, 404, 500} }
     ELSE {})

Attempt(i, retries) ==
    IF StartByte(segments[i]) > EndByte(segments[i])
    THEN /\ segments' = [segments EXCEPT ![i].state = "completed"]
         /\ wk' = [wk EXCEPT ![i] = Exited]
         /\ NoEvent
    ELSE \E r \in Replies(segments[i]) :
         /\ wk' = [wk EXCEPT ![i] = [pc |-> "xfer", rpos |-> r.rpos, left |-> r.left,
                                     http |-> r.http, retries |-> retries,
                                     range |-> Range(segments[i]),
                                     result |-> "none"]]
         /\ IF r = ServerReply(segments[i], res) THEN NoEvent ELSE TakeEvent
         /\ segments' = IF retries = 0
                        THEN [segments EXCEPT ![i].state = "downloading"]
                        ELSE segments

WorkerBegin(i) ==
    /\ i \in SegIdx
    /\ wk[i].pc = "init"
    /\ Attempt(i, 0)
    /\ UNCHANGED <<res, state, file_size, supports_ranges, progress, sup, fw,
                   meta, usr, ret, engines, mgr, probe>>

\* an attempt ended with a curl error: first attempt or inside the retry loop
AfterError(i, result) ==
    IF wk[i].retries = 0 /\ result # "transient"
    THEN /\ segments' = [segments EXCEPT ![i].state = "failed",
                                         ![i].error = "network_error"]
         /\ wk' = [wk EXCEPT ![i] = [Exited EXCEPT !.result = result]]
    ELSE /\ wk' = [wk EXCEPT ![i].pc = "retry", ![i].result = result]
         /\ UNCHANGED segments

\* write_callback for one chunk: FileWriter::write, then add_downloaded.
WorkerRecv(i) ==
    /\ i \in SegIdx
    /\ wk[i].pc = "xfer"
    /\ wk[i].left > 0
    /\ LET n == Min2(ChunkSize, wk[i].left)
       IN  \/ /\ fw.open
              /\ fw' = [fw EXCEPT !.data =
                          WriteBytes(fw.data,
                                     U(segments[i].file_offset + segments[i].write_offset),
                                     n, wk[i].rpos, wk[i].http)]
              /\ segments' = [segments EXCEPT
                                ![i].downloaded = U(@ + n),
                                ![i].write_offset = U(@ + n)]
              /\ wk' = [wk EXCEPT ![i].rpos = @ + n, ![i].left = @ - n]
              /\ NoEvent
           \/ \* the write fails: write_callback returns 0, CURLE_WRITE_ERROR
              /\ \/ ~fw.open /\ NoEvent
                 \/ fw.open /\ TakeEvent
              /\ AfterError(i, "write_error")
              /\ UNCHANGED fw
    /\ UNCHANGED <<res, state, file_size, supports_ranges, progress, sup,
                   meta, usr, ret, engines, mgr, probe>>

\* the worker returns after a finished transfer without storing a final state
WorkerLeaves(i) ==
    /\ i \in SegIdx
    /\ wk[i].pc = "xfer"
    /\ wk[i].left = 0
    /\ wk' = [wk EXCEPT ![i] = Exited]
    /\ UNCHANGED <<res, state, file_size, supports_ranges, segments, progress,
                   sup, fw, meta, usr, ret, budget, faults, engines, mgr, probe>>

\* curl_easy_perform returns CURLE_OK.  After a retry the response code is
\* read from a handle that was already cleaned up: any code.
WorkerDone(i) ==
    /\ i \in SegIdx
    /\ wk[i].pc = "xfer"
    /\ wk[i].left = 0
    /\ \E code \in (IF wk[i].retries = 0 THEN {wk[i].http} ELSE {200, 404, 416, 500}) :
          segments' = IF code >= 400
                      THEN [segments EXCEPT ![i].state = "failed",
                                            ![i].error = ErrorOf(code)]
                      ELSE [segments EXCEPT ![i].state = "completed"]
    /\ wk' = [wk EXCEPT ![i] = Exited]
    /\ UNCHANGED <<res, state, file_size, supports_ranges, progress, sup, fw,
                   meta, usr, ret, budget, faults, engines, mgr, probe>>

\* progress_callback sees stop_requested_: CURLE_ABORTED_BY_CALLBACK.
WorkerAbort(i) ==
    /\ i \in SegIdx
    /\ wk[i].pc = "xfer"
    /\ segments[i].stop
    /\ wk' = [wk EXCEPT ![i] = Exited]
    /\ UNCHANGED <<res, state, file_size, supports_ranges, segments, progress,
                   sup, fw, meta, usr, ret, budget, faults, engines, mgr, probe>>

\* curl_easy_perform returns a transport error.
WorkerError(i) ==
    /\ i \in SegIdx
    /\ wk[i].pc = "xfer"
    /\ TakeEvent
    /\ \E result \in {"transient", "fatal"} : AfterError(i, result)
    /\ UNCHANGED <<res, state, file_size, supports_ranges, progress, sup, fw,
                   meta, usr, ret, engines, mgr, probe>>

\* One turn of the retry loop, or its end.
WorkerRetry(i) ==
    /\ i \in SegIdx
    /\ wk[i].pc = "retry"
    /\ IF wk[i].retries < MAX_RETRIES /\ ~segments[i].stop
       THEN Attempt(i, wk[i].retries + 1)
       ELSE /\ segments' = [segments EXCEPT ![i].state = "failed",
                                            ![i].error = "network_error"]
            /\ wk' = [wk EXCEPT ![i] = Exited]
            /\ NoEvent
    /\ UNCHANGED <<res, state, file_size, supports_ranges, progress, sup, fw,
                   meta, usr, ret, engines, mgr, probe>>

(***************************************************************************)
(* Specifications.                                                         *)
(***************************************************************************)
UserStep ==
    \/ EngineStart
    \/ EngineStartJoin
    \/ EnginePause
    \/ EnginePauseStore
    \/ EnginePauseSave
    \/ EngineResume
    \/ EngineResumeJoin
    \/ EngineCancel
    \/ EngineDestroy
    \/ TeardownJoinLoop
    \/ TeardownCancelSeg
    \/ TeardownClose

SupStep ==
    \/ SupStart
    \/ SupSave
    \/ SupCheck
    \/ \E i \in 1..MaxSegs : SupMonitorDetect(i)
    \/ SupMark
    \/ SupResume
    \/ SupJoin
    \/ SupTick
    \/ SupDelete

WorkerStep(i) ==
    \/ WorkerBegin(i)
    \/ WorkerRecv(i)
    \/ WorkerDone(i)
    \/ WorkerAbort(i)
    \/ WorkerError(i)
    \/ WorkerRetry(i)

Next == UserStep \/ SupStep \/ \E i \in 1..MaxSegs : WorkerStep(i)

Spec == Init /\ [][Next]_vars

SpecOpen == InitOpen /\ [][Next]_vars

(***************************************************************************)
(* start() on a new engine over an output path where an earlier run (of    *)
(* this or another url, against a resource of this or another length) left *)
(* a meta file, whole or cut short.                                        *)
(***************************************************************************)
OtherUrl == "v"

StoredCounters(plan) == [ 1..Len(plan) -> {0, 1} ]

StoredTable(plan, d) ==
    [ i \in 1..Len(plan) |->
        [ id |-> plan[i].id, offset |-> plan[i].offset, size |-> plan[i].size,
          file_offset |-> plan[i].file_offset, downloaded |-> d[i] ] ]

StoredMetas ==
    {NoMeta} \cup
    UNION { { [ present |-> TRUE, ok |-> k, url |-> u, file_size |-> fs,
                segments |-> StoredTable(create_segments(fs, fs # 0), d) ] :
              d \in StoredCounters(create_segments(fs, fs # 0)),
              k \in BOOLEAN, u \in {Url, OtherUrl} } :
            fs \in { IF r.known THEN r.len ELSE 0 : r \in Resources } }

InitStored ==
    /\ res \in Resources
    /\ state = "idle"
    /\ file_size = 0
    /\ supports_ranges = TRUE
    /\ segments = <<>>
    /\ wk = <<>>
    /\ progress = ProgressZero
    /\ sup = SupNone
    /\ fw = FreshWriter(TRUE, EmptyFile)
    /\ meta \in StoredMetas
    /\ usr = UsrIdle
    /\ ret = [op |-> "none", val |-> "none"]
    /\ budget = MaxBudget
    /\ faults = MaxFaults
    /\ engines = 1
    /\ mgr = NoManager
    /\ probe = NoProbe

SpecPrepare == InitStored /\ [][EngineStart]_vars

(***************************************************************************)
(* A download that is started and then left alone: the caller only calls   *)
(* start(), never pause(), resume(), cancel() or the destructor.  The      *)
(* download loop and every worker thread are scheduled fairly: a thread    *)
(* that can take a step of its code eventually takes one, and libcurl      *)
(* eventually delivers the next chunk or the end of each transfer.  The    *)
(* events of the environment (a stall, a fault, a slow segment, the        *)
(* periodic timer) stay optional and are finitely many: the budget pays    *)
(* for the call of start() and for MaxFaults events.                       *)
(***************************************************************************)
InitLive ==
    /\ res \in Resources
    /\ state = "idle"
    /\ file_size = 0
    /\ supports_ranges = TRUE
    /\ segments = <<>>
    /\ wk = <<>>
    /\ progress = ProgressZero
    /\ sup = SupNone
    /\ fw = FreshWriter(TRUE, EmptyFile)
    /\ meta = NoMeta
    /\ usr = UsrIdle
    /\ ret = [op |-> "none", val |-> "none"]
    /\ budget = MaxFaults + 1
    /\ faults = MaxFaults
    /\ engines = 1
    /\ mgr = NoManager
    /\ probe = NoProbe

SpecLive ==
    /\ InitLive
    /\ [][EngineStart \/ SupStep \/ \E i \in 1..MaxSegs : WorkerStep(i)]_vars
    /\ WF_vars(SupStep)
    /\ \A i \in 1..MaxSegs : WF_vars(WorkerStep(i))

(***************************************************************************)
(* One download of a resource of known length that is fetched by a single  *)
(* worker (it is shorter than MIN_SEGMENT_SIZE and is never split), with   *)
(* enough events for the worker to go through its whole retry loop: one    *)
(* error per attempt.  The caller starts the download and then leaves it   *)
(* alone (no pause, resume, cancel or destruction).                        *)
(***************************************************************************)
InitRetry ==
    /\ res \in { r \in Resources : r.known /\ r.len < MIN_SEGMENT_SIZE }
    /\ state = "idle"
    /\ file_size = 0
    /\ supports_ranges = TRUE
    /\ segments = <<>>
    /\ wk = <<>>
    /\ progress = ProgressZero
    /\ sup = SupNone
    /\ fw = FreshWriter(TRUE, EmptyFile)
    /\ meta = NoMeta
    /\ usr = UsrIdle
    /\ ret = [op |-> "none", val |-> "none"]
    /\ budget = MAX_RETRIES + 2
    /\ faults = MAX_RETRIES + 1
    /\ engines = 1
    /\ mgr = NoManager
    /\ probe = NoProbe

SpecRetry ==
    InitRetry /\ [][ \/ EngineStart
                     \/ SupStart
                     \/ SupSave
                     \/ SupCheck
                     \/ SupTick
                     \/ SupDelete
                     \/ \E i \in 1..MaxSegs : WorkerBegin(i)
                     \/ \E i \in 1..MaxSegs : WorkerRecv(i)
                     \/ \E i \in 1..MaxSegs : WorkerDone(i)
                     \/ \E i \in 1..MaxSegs : WorkerError(i)
                     \/ \E i \in 1..MaxSegs : WorkerRetry(i) ]_vars

(***************************************************************************)
(* DownloadMeta::save and DownloadMeta::load on the text of the meta file. *)
(* A text is a sequence of characters; numbers are written in decimal by   *)
(* operator<< and read back by std::stoull (header lines) and by           *)
(* operator>> on an istringstream (segment lines).                         *)
(***************************************************************************)
MaxUrlLen   == 2      \* longest url / output_path of a record
MaxMetaSegs == 2      \* most segments of a record

NL == "\n"
SP == " "
IsDigit(c)  == \E d \in 1..10 : Digits[d] = c
DigitVal(c) == (CHOOSE d \in 1..10 : Digits[d] = c) - 1
IsSpace(c)  == c \in {SP, NL}

\* file << text << '\n'
Line(t) == t \o <<NL>>

SegLine(sm) ==
    ToDec(sm.id) \o <<SP>> \o ToDec(sm.offset) \o <<SP>> \o ToDec(sm.size)
    \o <<SP>> \o ToDec(sm.file_offset) \o <<SP>> \o ToDec(sm.downloaded) \o <<NL>>

RECURSIVE SegLines(_, _)
SegLines(segs, i) ==
    IF i > Len(segs) THEN << >> ELSE SegLine(segs[i]) \o SegLines(segs, i + 1)

\* save() as it would be with the header written on one line
MetaSaveOneLine(m) ==
    m.url \o <<SP>> \o m.output_path \o <<SP>> \o ToDec(m.file_size) \o <<SP>>
    \o ToDec(m.total_downloaded) \o <<SP>> \o ToDec(Len(m.segments)) \o <<NL>>
    \o SegLines(m.segments, 1)

MetaSave(m) ==
    Line(m.url) \o Line(m.output_path) \o Line(ToDec(m.file_size))
    \o Line(ToDec(m.total_downloaded)) \o Line(ToDec(Len(m.segments)))
    \o SegLines(m.segments, 1)

\* std::getline from position pos: fails at end of text, else the characters
\* up to the next line break (or the end) and the position after it.
RECURSIVE LineEnd(_, _)
LineEnd(text, pos) ==
    IF pos > Len(text) \/ text[pos] = NL THEN pos ELSE LineEnd(text, pos + 1)

GetLine(text, pos) ==
    IF pos > Len(text) THEN [ok |-> FALSE, line |-> << >>, next |-> pos]
    ELSE [ok |-> TRUE, line |-> SubSeq(text, pos, LineEnd(text, pos) - 1),
          next |-> LineEnd(text, pos) + 1]

\* The unsigned number at position pos of a line: white space is skipped, a
\* sign is taken, then the digits; no digit or a value beyond the word is a
\* failure (std::stoull throws, operator>> sets failbit).
RECURSIVE SkipSpace(_, _)
SkipSpace(line, pos) ==
    IF pos <= Len(line) /\ IsSpace(line[pos]) THEN SkipSpace(line, pos + 1) ELSE pos

RECURSIVE DigitsEnd(_, _)
DigitsEnd(line, pos) ==
    IF pos <= Len(line) /\ IsDigit(line[pos]) THEN DigitsEnd(line, pos + 1) ELSE pos

RECURSIVE DecValue(_, _, _)
DecValue(line, from, to) ==
    IF to < from THEN 0
    ELSE 10 * DecValue(line, from, to - 1) + DigitVal(line[to])

ReadNumber(line, pos) ==
    LET p0   == SkipSpace(line, pos)
        neg  == p0 <= Len(line) /\ line[p0] = "-"
        p1   == IF p0 <= Len(line) /\ line[p0] \in {"-", "+"} THEN p0 + 1 ELSE p0
        p2   == DigitsEnd(line, p1)
        v    == DecValue(line, p1, p2 - 1)
    IN  IF p2 = p1 \/ v >= Word THEN [ok |-> FALSE, val |-> 0, next |-> p2]
        ELSE [ok |-> TRUE, val |-> IF neg THEN Sub(0, v) ELSE v, next |-> p2]

\* iss >> id >> offset >> size >> file_offset >> downloaded: after a failed
\* extraction the failing field is 0 and the later ones keep their default 0.
ReadSegLine(line) ==
    LET a == ReadNumber(line, 1)
        b == IF a.ok THEN ReadNumber(line, a.next) ELSE a
        c == IF b.ok THEN ReadNumber(line, b.next) ELSE b
        d == IF c.ok THEN ReadNumber(line, c.next) ELSE c
        e == IF d.ok THEN ReadNumber(line, d.next) ELSE d
    IN  [ id |-> a.val, offset |-> b.val, size |-> c.val,
          file_offset |-> d.val, downloaded |-> e.val ]

LoadError == [ok |-> FALSE]

RECURSIVE ReadSegs(_, _, _)
ReadSegs(text, pos, count) ==
    IF count = 0 THEN [ok |-> TRUE, segs |-> << >>]
    ELSE LET g == GetLine(text, pos)
         IN  IF ~g.ok THEN [ok |-> FALSE, segs |-> << >>]
             ELSE LET rest == ReadSegs(text, g.next, count - 1)
                  IN  [ok |-> rest.ok, segs |-> <<ReadSegLine(g.line)>> \o rest.segs]

MetaLoad(text) ==
    LET l1 == GetLine(text, 1)
        l2 == GetLine(text, l1.next)
        l3 == GetLine(text, l2.next)
        l4 == GetLine(text, l3.next)
        l5 == GetLine(text, l4.next)
        n3 == ReadNumber(l3.line, 1)
        n4 == ReadNumber(l4.line, 1)
        n5 == ReadNumber(l5.line, 1)
    IN  IF ~l1.ok \/ ~l2.ok \/ ~l3.ok THEN LoadError
        ELSE IF ~n3.ok \/ ~l4.ok THEN LoadError
        ELSE IF ~n4.ok \/ ~l5.ok THEN LoadError
        ELSE IF ~n5.ok THEN LoadError
        ELSE LET r == ReadSegs(text, l5.next, n5.val)
             IN  IF ~r.ok THEN LoadError
                 ELSE [ ok |-> TRUE, url |-> l1.line, output_path |-> l2.line,
                        file_size |-> n3.val, total_downloaded |-> n4.val,
                        segments |-> r.segs ]

\* The records the round trip is exercised on: url and output_path without
\* line breaks, sizes over the whole word, zero to MaxMetaSegs segments.
MetaChars == {"a", SP, "7"}

Texts(n) == UNION { [1..k -> MetaChars] : k \in 0..n }

MetaSizes == {0, 9, 10, Word - 1}

MetaSegs ==
    { [ id |-> i, offset |-> o, size |-> z, file_offset |-> o, downloaded |-> d ] :
        i \in {0, 11}, o \in {0, Word - 1}, z \in {10}, d \in {0} }
    \cup { [ id |-> 1, offset |-> 0, size |-> 0, file_offset |-> 9, downloaded |-> 10 ] }

MetaRecords ==
    { [ url |-> u, output_path |-> o, file_size |-> fs, total_downloaded |-> td,
        segments |-> sg ] :
        u \in Texts(MaxUrlLen), o \in Texts(1), fs \in MetaSizes, td \in {0, 10},
        sg \in UNION { [1..k -> MetaSegs] : k \in 0..MaxMetaSegs } }

\* No engine at work: the state in which an operation is exercised on its own.
NoEngine ==
    /\ res = [len |-> 1, known |-> TRUE, ranges |-> TRUE]
    /\ state = "idle"
    /\ file_size = 0
    /\ supports_ranges = TRUE
    /\ segments = <<>>
    /\ wk = <<>>
    /\ progress = ProgressZero
    /\ sup = SupNone
    /\ fw = FreshWriter(FALSE, EmptyFile)
    /\ meta = NoMeta
    /\ usr = UsrIdle
    /\ ret = [op |-> "none", val |-> "none"]
    /\ budget = 0
    /\ faults = 0
    /\ engines = 1

EngineState == <<res, state, file_size, supports_ranges, segments, wk, progress,
                 sup, fw, meta, usr, ret, budget, faults, engines>>

InitMeta ==
    /\ NoEngine
    /\ mgr = NoManager
    /\ probe \in { [op |-> "record", rec |-> r] : r \in MetaRecords }

MetaSaveStep ==
    /\ probe.op = "record"
    /\ probe' = [op |-> "saved", rec |-> probe.rec, text |-> MetaSave(probe.rec)]
    /\ UNCHANGED <<EngineState, mgr>>

MetaLoadStep ==
    /\ probe.op = "saved"
    /\ probe' = [op |-> "loaded", rec |-> probe.rec, text |-> probe.text,
                 out |-> MetaLoad(probe.text)]
    /\ UNCHANGED <<EngineState, mgr>>

SpecMeta == InitMeta /\ [][MetaSaveStep \/ MetaLoadStep]_vars

(***************************************************************************)
(* The initial plan on its own: prepare() takes content_length and         *)
(* accepts_ranges from HEAD, drops range support for size 0 and calls      *)
(* create_segments.                                                        *)
(***************************************************************************)
PlanSizes ==
    (0..(2 * MiB + 1))
    \cup { t + d : t \in {10 * MiB, 50 * MiB, 100 * MiB}, d \in {-1, 0, 1} }
    \cup { 2 * 100 * MiB }

InitPlan ==
    /\ NoEngine
    /\ mgr = NoManager
    /\ probe \in { [op |-> "head", size |-> fs, accepts_ranges |-> a] :
                     fs \in PlanSizes, a \in BOOLEAN }

PlanStep ==
    /\ probe.op = "head"
    /\ probe' = [ op |-> "planned", size |-> probe.size,
                  accepts_ranges |-> probe.accepts_ranges,
                  segs |-> create_segments(probe.size,
                                           probe.accepts_ranges /\ probe.size # 0) ]
    /\ UNCHANGED <<EngineState, mgr>>

SpecPlan == InitPlan /\ [][PlanStep]_vars

(***************************************************************************)
(* SegmentCalculator::optimal_segments.  Bandwidths are in units of        *)
(* 500'000 bytes per second, so that the thresholds keep their ratio.  The *)
(* source interpolates in double and truncates; the quotient is far from   *)
(* the rounding error of a double, so it is the integer quotient here.     *)
(***************************************************************************)
MaxBandwidth == 401   \* largest bandwidth exercised (200 MB/s is 400)

MAX_SEGMENTS             == 32
MIN_SEGMENTS             == 4
HIGH_BANDWIDTH_THRESHOLD == 200   \* 100'000'000 bytes per second
LOW_BANDWIDTH_THRESHOLD  == 2     \* 1'000'000 bytes per second

\* the interpolation as it would be over MAX_SEGMENTS instead of the span
optimal_segments_full_span(bandwidth_bps) ==
    IF bandwidth_bps >= HIGH_BANDWIDTH_THRESHOLD THEN MAX_SEGMENTS
    ELSE IF bandwidth_bps <= LOW_BANDWIDTH_THRESHOLD THEN MIN_SEGMENTS
    ELSE MIN_SEGMENTS +
         (MAX_SEGMENTS * (bandwidth_bps - LOW_BANDWIDTH_THRESHOLD))
            \div (HIGH_BANDWIDTH_THRESHOLD - LOW_BANDWIDTH_THRESHOLD)

optimal_segments(bandwidth_bps) ==
    IF bandwidth_bps >= HIGH_BANDWIDTH_THRESHOLD THEN MAX_SEGMENTS
    ELSE IF bandwidth_bps <= LOW_BANDWIDTH_THRESHOLD THEN MIN_SEGMENTS
    ELSE MIN_SEGMENTS +
         ((MAX_SEGMENTS - MIN_SEGMENTS) * (bandwidth_bps - LOW_BANDWIDTH_THRESHOLD))
            \div (HIGH_BANDWIDTH_THRESHOLD - LOW_BANDWIDTH_THRESHOLD)

InitCalc ==
    /\ NoEngine
    /\ mgr = NoManager
    /\ probe \in { [op |-> "bandwidth", bps |-> b] : b \in 0..MaxBandwidth }

CalcStep ==
    /\ probe.op = "bandwidth"
    /\ probe' = [op |-> "segments", bps |-> probe.bps,
                 count |-> optimal_segments(probe.bps)]
    /\ UNCHANGED <<EngineState, mgr>>

SpecCalc == InitCalc /\ [][CalcStep]_vars

(***************************************************************************)
(* DownloadManager: the registry of engines and its id counter.  Every     *)
(* operation holds mutex_ from entry to return, so each is one step.  An   *)
(* engine is represented here by the value of its state_; its inner        *)
(* workings are those of the engine specification.  next_id_ is a          *)
(* std::uint32_t and wraps at IdWord.                                      *)
(***************************************************************************)
IdWord     == 4   \* 2^32 in the source: range of std::uint32_t
MaxCreates == 5   \* create_download calls in a run

Ids == 0..(IdWord - 1)

Call(op, id, ok) == [op |-> op, id |-> id, ok |-> ok]

\* downloads_[id] = std::move(engine): inserts, or replaces the mapped engine
Assign(downloads, id, st) ==
    [i \in (DOMAIN downloads) \cup {id} |-> IF i = id THEN st ELSE downloads[i]]

\* downloads_.erase(it)
Erase(downloads, id) ==
    [i \in (DOMAIN downloads) \ {id} |-> downloads[i]]

\* removal as it would be if a paused engine could be removed too
MayRemoveOrPaused(st) == st \in {"completed", "failed", "cancelled", "paused"}

MayRemove(st) == st \in {"completed", "failed", "cancelled"}

InitManager ==
    /\ NoEngine
    /\ mgr = NoManager
    /\ probe = NoProbe

ManagerCreate ==
    /\ mgr.calls < MaxCreates
    /\ \E url_ok \in BOOLEAN :
         LET id == mgr.next_id IN
         mgr' = IF url_ok
                THEN [mgr EXCEPT !.next_id   = (id + 1) % IdWord,
                                 !.downloads = Assign(mgr.downloads, id, "idle"),
                                 !.issued    = @ \cup {id},
                                 !.calls     = @ + 1,
                                 !.last      = Call("create", id, TRUE)]
                ELSE [mgr EXCEPT !.next_id = (id + 1) % IdWord,
                                 !.spent   = @ \cup {id},
                                 !.calls   = @ + 1,
                                 !.last    = Call("create", id, FALSE)]
    /\ UNCHANGED <<EngineState, probe>>

\* DownloadEngine::start under the manager's lock: refused in downloading,
\* completed, failed and cancelled; otherwise prepare() fails or the engine
\* is downloading.
ManagerStart ==
    /\ \E id \in Ids :
         IF id \notin DOMAIN mgr.downloads
         THEN mgr' = [mgr EXCEPT !.last = Call("start", id, FALSE)]
         ELSE IF mgr.downloads[id] \in {"downloading", "completed", "failed", "cancelled"}
         THEN mgr' = [mgr EXCEPT !.last = Call("start", id, FALSE)]
         ELSE \E prepared \in BOOLEAN :
                mgr' = [mgr EXCEPT
                          !.downloads[id] = IF prepared THEN "downloading" ELSE "failed",
                          !.last          = Call("start", id, prepared)]
    /\ UNCHANGED <<EngineState, probe>>

ManagerPause ==
    /\ \E id \in Ids :
         IF id \in DOMAIN mgr.downloads /\ mgr.downloads[id] = "downloading"
         THEN mgr' = [mgr EXCEPT !.downloads[id] = "paused",
                                 !.last          = Call("pause", id, TRUE)]
         ELSE mgr' = [mgr EXCEPT !.last = Call("pause", id, TRUE)]
    /\ UNCHANGED <<EngineState, probe>>

ManagerResume ==
    /\ \E id \in Ids :
         IF id \in DOMAIN mgr.downloads /\ mgr.downloads[id] = "paused"
         THEN mgr' = [mgr EXCEPT !.downloads[id] = "downloading",
                                 !.last          = Call("resume", id, TRUE)]
         ELSE mgr' = [mgr EXCEPT !.last = Call("resume", id, FALSE)]
    /\ UNCHANGED <<EngineState, probe>>

ManagerCancel ==
    /\ \E id \in Ids :
         IF id \in DOMAIN mgr.downloads
         THEN mgr' = [mgr EXCEPT !.downloads[id] = "cancelled",
                                 !.last          = Call("cancel", id, TRUE)]
         ELSE mgr' = [mgr EXCEPT !.last = Call("cancel", id, TRUE)]
    /\ UNCHANGED <<EngineState, probe>>

ManagerRemove ==
    /\ \E id \in Ids :
         IF id \in DOMAIN mgr.downloads /\ MayRemove(mgr.downloads[id])
         THEN mgr' = [mgr EXCEPT !.downloads = Erase(mgr.downloads, id),
                                 !.removed   = @ \cup {id},
                                 !.last      = Call("remove", id, TRUE)]
         ELSE mgr' = [mgr EXCEPT !.last = Call("remove", id, TRUE)]
    /\ UNCHANGED <<EngineState, probe>>

\* The download_loop thread of a downloading engine ends the download:
\* all segments completed, or all finished with one failed.
ManagerEngineLoop ==
    /\ \E id \in DOMAIN mgr.downloads :
         /\ mgr.downloads[id] = "downloading"
         /\ \E st \in {"completed", "failed"} :
              mgr' = [mgr EXCEPT !.downloads[id] = st,
                                 !.last          = Call("download_loop", id, TRUE)]
    /\ UNCHANGED <<EngineState, probe>>

NextManager ==
    \/ ManagerCreate
    \/ ManagerStart
    \/ ManagerPause
    \/ ManagerResume
    \/ ManagerCancel
    \/ ManagerRemove
    \/ ManagerEngineLoop

SpecManager == InitManager /\ [][NextManager]_vars

(***************************************************************************)
(* The manager's delegating operations in two steps, with several calling  *)
(* threads: the call takes mutex_ and looks the engine up, the engine's    *)
(* method runs (start waits for HEAD, cancel joins threads and sleeps),    *)
(* the call returns.  `auto lock = std::unique_lock(mutex_)` is a local of  *)
(* the manager's function and is destroyed when that function returns.     *)
(***************************************************************************)
MaxCallers == 2   \* threads calling the manager, and engines they create

\* what the engine's method makes of state_, and whether it reports success
EngineCall(op, st) ==
    CASE op = "start"  -> IF st \in {"downloading", "completed", "failed", "cancelled"}
                          THEN {<<st, FALSE>>}
                          ELSE {<<"downloading", TRUE>>, <<"failed", FALSE>>}
      [] op = "pause"  -> {<<IF st = "downloading" THEN "paused" ELSE st, TRUE>>}
      [] op = "resume" -> IF st = "paused" THEN {<<"downloading", TRUE>>}
                          ELSE {<<st, FALSE>>}
      [] op = "cancel" -> {<<"cancelled", TRUE>>}
      [] OTHER         -> {<<st, TRUE>>}

ManagerEnter(t) ==
    /\ mgr.mutex = 0
    /\ \E op \in {"start", "pause", "resume", "cancel", "progress"}, id \in Ids :
         IF id \in DOMAIN mgr.downloads
         THEN mgr' = [mgr EXCEPT !.mutex = t, !.entered = Call(op, id, TRUE)]
         ELSE mgr' = [mgr EXCEPT !.last = Call(op, id, op \in {"pause", "cancel"})]
    /\ UNCHANGED <<EngineState, probe>>

ManagerLeave(t) ==
    /\ mgr.mutex = t
    /\ \E out \in EngineCall(mgr.entered.op, mgr.downloads[mgr.entered.id]) :
         mgr' = [mgr EXCEPT !.downloads[mgr.entered.id] = out[1],
                            !.last    = Call(mgr.entered.op, mgr.entered.id, out[2]),
                            !.entered = Call("none", 0, TRUE),
                            !.mutex   = 0]
    /\ UNCHANGED <<EngineState, probe>>

SpecManagerCalls ==
    /\ InitManager
    /\ [][ \/ (mgr.mutex = 0 /\ mgr.calls < MaxCallers /\ ManagerCreate)
           \/ (mgr.mutex = 0 /\ ManagerRemove)
           \/ ManagerEngineLoop
           \/ \E t \in 1..MaxCallers : ManagerEnter(t)
           \/ \E t \in 1..MaxCallers : ManagerLeave(t) ]_vars

(***************************************************************************)
(* Properties of the engine.  All are read under SpecOpen.                 *)
(***************************************************************************)
(* FileWriter on its own: open, write and close called on one writer, in   *)
(* any order, from the writer as the header constructs it.  created says   *)
(* whether AsyncFile::open can create the file.                            *)
(***************************************************************************)
MaxFilePos == 3   \* last file position written

InitWriter ==
    /\ NoEngine
    /\ mgr = NoManager
    /\ probe = NoProbe

WriterOpen ==
    /\ \E created \in BOOLEAN :
         IF ~fw.closed
         THEN /\ probe' = [op |-> "open", created |-> created, val |-> "file_exists"]
              /\ UNCHANGED fw
         ELSE IF created
         THEN /\ probe' = [op |-> "open", created |-> created, val |-> "ok"]
              /\ fw' = [fw EXCEPT !.closed = FALSE, !.open = TRUE, !.data = EmptyFile]
         ELSE /\ probe' = [op |-> "open", created |-> created, val |-> "error"]
              /\ UNCHANGED fw
    /\ UNCHANGED <<res, state, file_size, supports_ranges, segments, wk, progress,
                   sup, meta, usr, ret, budget, faults, engines, mgr>>

WriterWrite ==
    /\ \E pos \in 0..MaxFilePos, n \in 1..ChunkSize :
         IF ~fw.open
         THEN /\ probe' = [op |-> "write", created |-> FALSE, val |-> "handle_invalid"]
              /\ UNCHANGED fw
         ELSE /\ probe' = [op |-> "write", created |-> FALSE, val |-> "ok"]
              /\ fw' = [fw EXCEPT !.data = WriteBytes(fw.data, pos, n, pos, 200)]
    /\ UNCHANGED <<res, state, file_size, supports_ranges, segments, wk, progress,
                   sup, meta, usr, ret, budget, faults, engines, mgr>>

WriterClose ==
    /\ probe' = [op |-> "close", created |-> FALSE, val |-> "void"]
    /\ fw' = IF fw.closed THEN fw
             ELSE [fw EXCEPT !.open = FALSE, !.closed = TRUE]
    /\ UNCHANGED <<res, state, file_size, supports_ranges, segments, wk, progress,
                   sup, meta, usr, ret, budget, faults, engines, mgr>>

SpecWriter == InitWriter /\ [][WriterOpen \/ WriterWrite \/ WriterClose]_vars

(***************************************************************************)
(* Segment::start on its own, called by several threads on one segment in  *)
(* any state: the compare-exchange pending -> connecting and, on success,  *)
(* the spawn of segment_thread_.                                           *)
(***************************************************************************)
\* start() as it would be with a plain store in place of the compare-exchange
SegmentStartStore(seg) ==
    [seg |-> [seg EXCEPT !.state = "connecting"], ok |-> TRUE]

SegmentStart(seg) ==
    IF seg.state = "pending"
    THEN [seg |-> [seg EXCEPT !.state = "connecting"], ok |-> TRUE]
    ELSE [seg |-> seg, ok |-> FALSE]

InitSegStart ==
    /\ NoEngine
    /\ mgr = NoManager
    /\ probe \in { [ op |-> "segment",
                      seg |-> [NewSegment(0, 0, ChunkSize, 0) EXCEPT
                                 !.state = st, !.downloaded = d, !.write_offset = d],
                      result |-> [c \in 1..MaxCallers |-> "none"],
                      workers |-> 0 ] :
                     st \in {"pending", "connecting", "downloading", "stalled",
                              "completed", "failed", "cancelled"},
                     d \in 0..ChunkSize }

SegStartCall ==
    /\ probe.op = "segment"
    /\ \E c \in 1..MaxCallers :
         /\ probe.result[c] = "none"
         /\ LET r == SegmentStart(probe.seg)
            IN  probe' = [probe EXCEPT
                            !.seg = r.seg,
                            !.result[c] = IF r.ok THEN "ok" ELSE "network_error",
                            !.workers = IF r.ok THEN @ + 1 ELSE @]
    /\ UNCHANGED <<EngineState, mgr>>

SpecSegStart == InitSegStart /\ [][SegStartCall]_vars

(***************************************************************************)
(* Segment::resume statement by statement, called on one stalled segment   *)
(* by the supervisor (monitor_segments) and by the caller of               *)
(* DownloadEngine::resume.  The engine is downloading, the segment is      *)
(* downloading with its worker alive, the supervisor is about to test      *)
(* is_stalled and the caller is about to call pause() and then resume().   *)
(* live counts the worker threads of the segment that have not returned.   *)
(***************************************************************************)
InitStall ==
    /\ NoEngine
    /\ mgr = NoManager
    /\ probe \in { [ op |-> "stall",
                      state |-> "downloading",
                      seg |-> [NewSegment(0, 0, ChunkSize, 0) EXCEPT
                                 !.state = "downloading",
                                 !.downloaded = d, !.write_offset = d],
                      live |-> 1,
                      pc |-> [sup |-> "monitor", usr |-> "pause"] ] :
                     d \in 0..(ChunkSize - 1) }

\* monitor_segments: is_stalled(STALL_TIMEOUT_SEC)
StallDetect ==
    /\ probe.op = "stall"
    /\ probe.pc.sup = "monitor"
    /\ \E timed_out \in BOOLEAN :
         probe' = [probe EXCEPT !.pc.sup =
                      IF probe.seg.state = "downloading" /\ timed_out
                      THEN "mark" ELSE "done"]
    /\ UNCHANGED <<EngineState, mgr>>

\* monitor_segments: seg->state(SegmentState::stalled), then seg->resume()
StallMark ==
    /\ probe.op = "stall"
    /\ probe.pc.sup = "mark"
    /\ probe' = [probe EXCEPT !.seg.state = "stalled", !.pc.sup = "check"]
    /\ UNCHANGED <<EngineState, mgr>>

\* DownloadEngine::pause
StallPause ==
    /\ probe.op = "stall"
    /\ probe.pc.usr = "pause"
    /\ probe' = [probe EXCEPT
                   !.state = IF probe.state = "downloading" THEN "paused" ELSE @,
                   !.pc.usr = "resume"]
    /\ UNCHANGED <<EngineState, mgr>>

\* DownloadEngine::resume up to its call of seg->resume()
StallResume ==
    /\ probe.op = "stall"
    /\ probe.pc.usr = "resume"
    /\ probe' = IF probe.state # "paused"
                THEN [probe EXCEPT !.pc.usr = "done"]
                ELSE [probe EXCEPT !.state = "downloading",
                                   !.pc.usr = IF probe.seg.state = "stalled"
                                              THEN "check" ELSE "done"]
    /\ UNCHANGED <<EngineState, mgr>>

\* One statement of Segment::resume executed by caller c.
SegResumeStep(c) ==
    /\ probe.op = "stall"
    /\ \/ /\ probe.pc[c] = "check"
          /\ probe' = [probe EXCEPT !.pc[c] =
                         IF probe.seg.state = "stalled" THEN "stop" ELSE "done"]
       \/ /\ probe.pc[c] = "stop"
          /\ probe' = [probe EXCEPT !.seg.stop = TRUE, !.pc[c] = "join"]
       \/ /\ probe.pc[c] = "join"       \* joinable(): request_stop(), join()
          /\ probe.live = 0
          /\ probe' = [probe EXCEPT !.pc[c] = "reset"]
       \/ /\ probe.pc[c] = "reset"
          /\ probe' = [probe EXCEPT !.seg.stop = FALSE, !.pc[c] = "pending"]
       \/ /\ probe.pc[c] = "pending"
          /\ probe' = [probe EXCEPT !.seg.state = "pending", !.pc[c] = "start"]
       \/ /\ probe.pc[c] = "start"
          /\ LET r == SegmentStart(probe.seg)
             IN  probe' = [probe EXCEPT !.seg = r.seg,
                                        !.live = IF r.ok THEN @ + 1 ELSE @,
                                        !.pc[c] = "done"]
    /\ UNCHANGED <<EngineState, mgr>>

\* A worker of the segment returns: aborted by progress_callback when
\* stop_requested_ is set, or at the end of its transfer.
StallWorkerExit ==
    /\ probe.op = "stall"
    /\ probe.live > 0
    /\ \/ /\ probe.seg.stop
          /\ probe' = [probe EXCEPT !.live = @ - 1]
       \/ \E st \in {"completed", "failed"} :
            probe' = [probe EXCEPT !.live = @ - 1, !.seg.state = st]
    /\ UNCHANGED <<EngineState, mgr>>

SpecStall ==
    InitStall /\ [][ \/ StallDetect
                     \/ StallMark
                     \/ StallPause
                     \/ StallResume
                     \/ \E c \in {"sup", "usr"} : SegResumeStep(c)
                     \/ StallWorkerExit ]_vars

(***************************************************************************)
(* The segment table segments_ as two threads use it while the engine is   *)
(* downloading: the supervisor's turn (update_progress, which holds mutex_ *)
(* while it writes progress_, then dynamic_segmentation, whose push_back   *)
(* takes no lock) and an observer's calls of segment_progress() (reserve   *)
(* on segments_.size(), then the loop over the table under mutex_).        *)
(* len is segments_.size(); k counts the elements the observer has read.   *)
(***************************************************************************)
InitObserve ==
    /\ NoEngine
    /\ mgr = NoManager
    /\ probe \in { [ op |-> "observe", len |-> n, mutex |-> "free",
                      sup |-> "turn", obs |-> "idle", k |-> 0, calls |-> 0 ] :
                     n \in 1..(MaxSegs - 1) }

\* update_progress: the block under std::lock_guard<std::mutex> lock(mutex_)
SupUpdateProgress ==
    /\ probe.op = "observe"
    /\ \/ /\ probe.sup = "turn" /\ probe.mutex = "free"
          /\ probe' = [probe EXCEPT !.sup = "progress", !.mutex = "supervisor"]
       \/ /\ probe.sup = "progress"
          /\ probe' = [probe EXCEPT !.sup = "split", !.mutex = "free"]
    /\ UNCHANGED <<EngineState, mgr>>

\* dynamic_segmentation: segments_.push_back(std::move(new_seg)), or no split
SupPushBack ==
    /\ probe.op = "observe"
    /\ \/ /\ probe.sup = "split"
          /\ \E split \in BOOLEAN :
               probe' = [probe EXCEPT !.sup =
                            IF split /\ probe.len < MaxSegs THEN "push_back" ELSE "turn"]
       \/ /\ probe.sup = "push_back"
          /\ probe' = [probe EXCEPT !.len = @ + 1, !.sup = "turn"]
    /\ UNCHANGED <<EngineState, mgr>>

\* DownloadEngine::segment_progress
ObserverStep ==
    /\ probe.op = "observe"
    /\ \/ /\ probe.obs = "idle" /\ probe.calls < MaxCallers
          /\ probe' = [probe EXCEPT !.obs = "reserve", !.calls = @ + 1]
       \/ /\ probe.obs = "reserve"          \* result.reserve(segments_.size())
          /\ probe' = [probe EXCEPT !.obs = "lock"]
       \/ /\ probe.obs = "lock" /\ probe.mutex = "free"
          /\ probe' = [probe EXCEPT !.obs = "for", !.mutex = "observer", !.k = 0]
       \/ /\ probe.obs = "for"              \* for (const auto& seg : segments_)
          /\ probe' = IF probe.k < probe.len
                      THEN [probe EXCEPT !.k = @ + 1]
                      ELSE [probe EXCEPT !.obs = "idle", !.mutex = "free", !.k = 0]
    /\ UNCHANGED <<EngineState, mgr>>

SpecObserve == InitObserve /\ [][SupUpdateProgress \/ SupPushBack \/ ObserverStep]_vars

(***************************************************************************)
(* Url::parse.  A URL text is a sequence of characters; positions are      *)
(* those of std::string_view (the first character is at 0), npos is the    *)
(* largest std::size_t and a substr count is an unsigned difference.       *)
(***************************************************************************)
MaxUrlChars == 5   \* longest URL text parsed

UrlParse(url_str) ==
    LET n    == Len(url_str)
        npos == Word - 1
        find(ch, from) ==
            LET S == { p \in from..(n - 1) : url_str[p + 1] = ch }
            IN  IF S = {} THEN npos ELSE CHOOSE p \in S : \A q \in S : p <= q
        substr(pos, count) == SubSeq(url_str, pos + 1, Min2(pos + count, n))
        tolower(c) == IF c = "A" THEN "a" ELSE c
        delim == { p \in 0..(n - 3) : /\ url_str[p + 1] = ":"
                                      /\ url_str[p + 2] = "/"
                                      /\ url_str[p + 3] = "/" }
        scheme_end == IF delim = {} THEN npos
                      ELSE CHOOSE p \in delim : \A q \in delim : p <= q
    IN
    IF scheme_end = npos THEN [ok |-> FALSE, error |-> "invalid_url"]
    ELSE
    LET scheme     == [i \in 1..scheme_end |-> tolower(url_str[i])]
        rest_start == scheme_end + 3
        slash      == find("/", rest_start)
        path_start == IF slash = npos THEN n ELSE slash
        quest      == find("?", rest_start)
        query_start == IF quest = npos THEN n ELSE quest
        hash       == find("#", rest_start)
        fragment_start == IF hash = npos THEN n ELSE hash
        host_end   == Min2(Min2(path_start, query_start), Min2(fragment_start, n))
        colon_pos  == find(":", rest_start)
        at_pos     == find("@", rest_start)
        bracket_start == find("[", rest_start)
        authority_start == IF at_pos # npos /\ at_pos < host_end
                           THEN at_pos + 1 ELSE rest_start
        plain_host == substr(authority_start, Sub(host_end, authority_start))
        bracket_end == find("]", bracket_start)
        ipv6_colon  == find(":", bracket_end)
        hp ==   \* host_ and port_
            IF bracket_start # npos /\ bracket_start < host_end
            THEN IF bracket_end # npos /\ bracket_end < host_end
                 THEN << substr(bracket_start, Sub(bracket_end, bracket_start) + 1),
                         IF ipv6_colon # npos /\ ipv6_colon < host_end
                         THEN substr(ipv6_colon + 1, Sub(Sub(host_end, ipv6_colon), 1))
                         ELSE << >> >>
                 ELSE << plain_host, << >> >>
            ELSE IF colon_pos # npos /\ colon_pos > authority_start /\ colon_pos < host_end
                 THEN << substr(authority_start, Sub(colon_pos, authority_start)),
                         substr(colon_pos + 1, Sub(Sub(host_end, colon_pos), 1)) >>
                 ELSE << plain_host, << >> >>
        path == IF path_start < n
                THEN substr(path_start,
                            Sub(Min2(query_start, fragment_start), path_start))
                ELSE << "/" >>
        query == IF query_start < n /\ query_start < fragment_start
                 THEN substr(query_start + 1, Sub(Sub(fragment_start, query_start), 1))
                 ELSE << >>
        fragment == IF fragment_start < n
                    THEN substr(fragment_start + 1, npos)
                    ELSE << >>
    IN  IF hp[1] = << >> THEN [ok |-> FALSE, error |-> "invalid_url"]
        ELSE [ ok |-> TRUE, scheme |-> scheme, host |-> hp[1], port |-> hp[2],
               path |-> path, query |-> query, fragment |-> fragment ]

InitUrl ==
    /\ NoEngine
    /\ mgr = NoManager
    /\ probe \in { [op |-> "url", url_str |-> t] :
                     t \in UNION { [1..k -> {"a", "A", ":", "/", "?", "#", "@", "[", "]"}] :
                                     k \in 0..MaxUrlChars } }

UrlStep ==
    /\ probe.op = "url"
    /\ probe' = [op |-> "parsed", url_str |-> probe.url_str,
                 url |-> UrlParse(probe.url_str)]
    /\ UNCHANGED <<EngineState, mgr>>

SpecUrl == InitUrl /\ [][UrlStep]_vars

(***************************************************************************)
(* HttpSession::head and the first step of DownloadEngine::prepare.        *)
(* result is what curl_easy_perform returns, http_code the status of the   *)
(* final response (redirects are followed).  The value is the error code   *)
(* head() returns, "none" when it returns the response.                    *)
(***************************************************************************)
HttpHead(result, http_code) ==
    IF result # "CURLE_OK" THEN "network_error"
    ELSE IF http_code >= 400
         THEN IF http_code = 404 THEN "not_found"
              ELSE IF http_code >= 500 THEN "server_error"
              ELSE IF http_code = 401 \/ http_code = 403 THEN "permission_denied"
              ELSE "none"
         ELSE "none"

\* prepare() up to the test of head_result: preparing is stored, then failed
\* when head() returned an error; otherwise prepare() goes on.
PrepareHead ==
    /\ probe.op = "none"
    /\ state = "idle"
    /\ \E result \in {"CURLE_OK", "CURLE_COULDNT_CONNECT"}, http_code \in 200..599 :
         LET ec == HttpHead(result, http_code)
         IN  /\ probe' = [op |-> "head", result |-> result, http_code |-> http_code,
                          ec |-> ec]
             /\ state' = IF ec # "none" THEN "failed" ELSE "preparing"
    /\ UNCHANGED <<res, file_size, supports_ranges, segments, wk, progress, sup,
                   fw, meta, usr, ret, budget, faults, engines, mgr>>

SpecHead == InitWriter /\ [][PrepareHead]_vars

(***************************************************************************)

Overlap(a, b) ==
    /\ a.size > 0 /\ b.size > 0
    /\ a.file_offset < b.file_offset + b.size
    /\ b.file_offset < a.file_offset + a.size

RECURSIVE SumSize(_, _)
SumSize(segs, i) ==
    IF i > Len(segs) THEN 0 ELSE segs[i].size + SumSize(segs, i + 1)

C7_TeardownOrder ==
    /\ usr.pc = "cancel_segs" =>
          /\ sup.pc = "none"
          /\ \A i \in SegIdx : i < usr.idx => ~Alive(wk[i])
    /\ ~fw.open => \A i \in SegIdx : ~Alive(wk[i])

\* a cancel() has returned on an engine whose workers had written data
C7_Witness ==
    /\ ret.op = "cancel"
    /\ fw.closed /\ ~fw.open
    /\ \E i \in SegIdx : segments[i].state = "cancelled" /\ segments[i].downloaded > 0

EngineVars == <<state, file_size, supports_ranges, segments, wk, sup, meta, fw,
                progress>>

C10_WrongStateCallsNoEffect ==
    [][ /\ (EngineResume /\ state # "paused") =>
              (ret' = [op |-> "resume", val |-> "error"] /\ UNCHANGED EngineVars)
        /\ (EnginePause /\ state # "downloading") =>
              (ret' = [op |-> "pause", val |-> "void"] /\ UNCHANGED EngineVars)
        /\ (EngineStart /\ state = "downloading") =>
              (ret' = [op |-> "start", val |-> "error"] /\ UNCHANGED EngineVars)
      ]_vars

\* start() has been refused on an engine that is downloading with live workers
C10_Witness ==
    /\ ret = [op |-> "start", val |-> "error"]
    /\ state = "downloading"
    /\ \E i \in SegIdx : Alive(wk[i])

\* C11: when the supervisor has ended the download as failed, the resume meta
\* file is still there, and a start() then called on the engine is accepted,
\* the engine is downloading again and every segment keeps its downloaded
\* counter.
FailedByLoop == state = "failed" /\ sup.pc = "done"

C11_MetaRetained == FailedByLoop => meta.present

HeadSize == IF res.known THEN res.len ELSE 0

Honoured == /\ meta.present /\ meta.ok
            /\ meta.url = Url /\ meta.file_size = HeadSize

IsRestoredFrom(segs, m) ==
    /\ Len(segs) = Len(m.segments)
    /\ \A i \in 1..Len(segs) :
         /\ segs[i].id = m.segments[i].id
         /\ segs[i].offset = m.segments[i].offset
         /\ segs[i].size = m.segments[i].size
         /\ segs[i].file_offset = m.segments[i].file_offset
         /\ segs[i].downloaded = m.segments[i].downloaded

IsFreshPlan(segs) ==
    /\ segs = create_segments(HeadSize, res.ranges /\ HeadSize # 0)
    /\ \A i \in 1..Len(segs) : segs[i].downloaded = 0 /\ segs[i].write_offset = 0

C13_RestoreOnlyMatchingMeta ==
    [][ (EngineStart /\ state = "idle" /\ segments = <<>>) =>
          IF Honoured
          THEN segments' = <<>> \/ IsRestoredFrom(segments', meta)
          ELSE /\ segments' = <<>> \/ IsFreshPlan(segments')
               /\ state' = "downloading" => IsFreshPlan(segments')
      ]_vars

\* an engine prepared over a readable meta of its own url whose size differs
\* from the live one: it runs the fresh plan
C13_Witness ==
    /\ state = "downloading"
    /\ meta.present /\ meta.ok /\ meta.url = Url /\ meta.file_size # file_size
    /\ \E i \in 1..Len(meta.segments) : meta.segments[i].downloaded > 0
    /\ IsFreshPlan(segments)

\* C14: for every DownloadMeta record whose url and output_path hold no line
\* break, load of what save wrote succeeds and yields the record again: every
\* header field and every field of every segment, in the same order.  Read
\* under SpecMeta.
C14_SaveLoadRoundTrip ==
    probe.op = "loaded" =>
        /\ probe.out.ok
        /\ probe.out.url = probe.rec.url
        /\ probe.out.output_path = probe.rec.output_path
        /\ probe.out.file_size = probe.rec.file_size
        /\ probe.out.total_downloaded = probe.rec.total_downloaded
        /\ probe.out.segments = probe.rec.segments

\* a record with an empty output_path, a url with a space, the largest size
\* and two segments has been saved and loaded
C14_Witness ==
    /\ probe.op = "loaded"
    /\ probe.rec.output_path = << >>
    /\ SP \in { probe.rec.url[k] : k \in 1..Len(probe.rec.url) }
    /\ probe.rec.file_size = Word - 1
    /\ Len(probe.rec.segments) = 2
    /\ probe.out.ok

\* C15: a download whose size HEAD did not report (0) or whose server does not
\* support ranges has exactly one segment, which covers the whole resource,
\* and its table never holds more; so does a 1-byte download with ranges.
SingleSegmentDownload == file_size = 0 \/ ~supports_ranges \/ file_size = 1

Ranged == probe.accepts_ranges /\ probe.size # 0

C17_HighFewLowMany ==
    probe.op = "segments" =>
        /\ probe.bps >= HIGH_BANDWIDTH_THRESHOLD => probe.count = MIN_SEGMENTS
        /\ probe.bps <= LOW_BANDWIDTH_THRESHOLD => probe.count = MAX_SEGMENTS

\* C18: for every bandwidth, optimal_segments returns a count between
\* MIN_SEGMENTS and MAX_SEGMENTS.  Read under SpecCalc.
C18_CountWithinBounds ==
    probe.op = "segments" =>
        MIN_SEGMENTS <= probe.count /\ probe.count <= MAX_SEGMENTS

\* a bandwidth just below the high threshold has been evaluated: the count is
\* interpolated and lies strictly inside the bounds
C18_Witness ==
    /\ probe.op = "segments"
    /\ probe.bps = HIGH_BANDWIDTH_THRESHOLD - 1
    /\ MIN_SEGMENTS < probe.count /\ probe.count < MAX_SEGMENTS

(***************************************************************************)
(* C19: the ids returned by DownloadManager::create_download are pairwise  *)
(* distinct and strictly increasing in call order, and an id is never      *)
(* returned again after its engine was removed or after a create_download  *)
(* call that failed on an invalid URL had taken it.  Stated on every       *)
(* successful create_download step: the id it returns is greater than      *)
(* every id returned before and is neither a removed nor a spent id.       *)
(***************************************************************************)
CreateReturns ==
    /\ mgr'.calls = mgr.calls + 1
    /\ mgr'.last.op = "create"
    /\ mgr'.last.ok

C19_IdsDistinctIncreasing ==
    [][ CreateReturns =>
          /\ \A i \in mgr.issued : i < mgr'.last.id
          /\ mgr'.last.id \notin mgr.removed
          /\ mgr'.last.id \notin mgr.spent ]_vars

\* The same statement for the calls made before next_id_ has wrapped.
C19_BeforeWrap ==
    [][ (CreateReturns /\ mgr.calls < IdWord - 1) =>
          /\ \A i \in mgr.issued : i < mgr'.last.id
          /\ mgr'.last.id \notin mgr.removed
          /\ mgr'.last.id \notin mgr.spent ]_vars

(***************************************************************************)
(* C20: DownloadManager::remove(id) erases the engine only when its state  *)
(* is completed, failed or cancelled; for an engine in any other state,    *)
(* and for an unknown id, the registry is left unchanged.                  *)
(***************************************************************************)
RemoveReturns ==
    /\ mgr' # mgr
    /\ mgr'.last.op = "remove"

C20_RemoveOnlyFinished ==
    [][ RemoveReturns =>
          LET id == mgr'.last.id IN
          IF /\ id \in DOMAIN mgr.downloads
             /\ mgr.downloads[id] \in {"completed", "failed", "cancelled"}
          THEN /\ DOMAIN mgr'.downloads = (DOMAIN mgr.downloads) \ {id}
               /\ \A i \in DOMAIN mgr'.downloads :
                    mgr'.downloads[i] = mgr.downloads[i]
          ELSE mgr'.downloads = mgr.downloads ]_vars

\* A remove of a downloading engine was refused after another engine had
\* been erased.
C20_Witness ==
    /\ mgr.removed # {}
    /\ mgr.last.op = "remove"
    /\ mgr.last.id \in DOMAIN mgr.downloads
    /\ mgr.downloads[mgr.last.id] = "downloading"

(***************************************************************************)
(* C21: every DownloadManager entry point (start, pause, resume, cancel,   *)
(* progress) holds the registry mutex only for the lookup and has released *)
(* it before the engine's method runs, so that a call blocked inside one   *)
(* engine does not block manager calls for other ids: while the engine     *)
(* method of a manager call is running, no caller owns mutex_.             *)
(***************************************************************************)
C21_LockReleasedBeforeEngine ==
    mgr.entered.op # "none" => mgr.mutex = 0

(***************************************************************************)
(* C22: for every transition of the engine to a terminal state (completed, *)
(* failed or cancelled) the observer callback is invoked at least once     *)
(* with a snapshot taken after that transition.  Stated at the point where *)
(* the thread that made the transition has finished its operation: the     *)
(* engine is in a terminal state, no public operation is in progress and   *)
(* the download loop is not running; then the last invocation of the       *)
(* callback has seen that terminal state.                                  *)
(***************************************************************************)
C22_TerminalNotified ==
    ( /\ state \in {"completed", "failed", "cancelled"}
      /\ usr.pc = "idle"
      /\ sup.pc \in {"none", "done"} )
    => progress.reported = state

(***************************************************************************)
(* C23: Url::parse fails with invalid_url for every input that has no      *)
(* `://` delimiter or whose host is empty, and every successfully parsed   *)
(* URL has a non-empty scheme, a non-empty host and a non-empty path.  The *)
(* host of an input scheme://[userinfo@]host[:port][/path][?query][#frag]  *)
(* is empty when the authority, after its userinfo, is empty or begins     *)
(* with the colon of the port.                                             *)
(***************************************************************************)
HasDelimiter(t) ==
    \E p \in 1..(Len(t) - 2) : t[p] = ":" /\ t[p + 1] = "/" /\ t[p + 2] = "/"

InputHostEmpty(t) ==
    LET d    == CHOOSE p \in 1..(Len(t) - 2) :
                   /\ t[p] = ":" /\ t[p + 1] = "/" /\ t[p + 2] = "/"
                   /\ \A q \in 1..(p - 1) :
                        ~(t[q] = ":" /\ t[q + 1] = "/" /\ t[q + 2] = "/")
        ends == { p \in (d + 3)..Len(t) : t[p] \in {"/", "?", "#"} }
        stop == IF ends = {} THEN Len(t) + 1
                ELSE CHOOSE p \in ends : \A q \in ends : p <= q
        ats  == { p \in (d + 3)..(stop - 1) : t[p] = "@" }
        from == IF ats = {} THEN d + 3
                ELSE 1 + CHOOSE p \in ats : \A q \in ats : q <= p
    IN  from = stop \/ t[from] = ":"

C23_ParseValidates ==
    probe.op = "parsed" =>
        /\ ~HasDelimiter(probe.url_str) =>
              probe.url = [ok |-> FALSE, error |-> "invalid_url"]
        /\ (HasDelimiter(probe.url_str) /\ InputHostEmpty(probe.url_str)) =>
              probe.url = [ok |-> FALSE, error |-> "invalid_url"]
        /\ probe.url.ok =>
              /\ probe.url.scheme # << >>
              /\ probe.url.host # << >>
              /\ probe.url.path # << >>

(***************************************************************************)
(* C24: FileWriter::open succeeds (given the underlying file can be        *)
(* created) exactly when the writer is not currently open: on a freshly    *)
(* constructed writer and on a writer that was closed it opens the file    *)
(* and is_open() becomes true; on a writer that is already open it fails   *)
(* with file_exists and leaves the open file untouched.                    *)
(***************************************************************************)
C24_OpenWhenNotOpen ==
    [][ probe'.op = "open" =>
          IF fw.open
          THEN probe'.val = "file_exists" /\ fw' = fw
          ELSE probe'.created => (probe'.val = "ok" /\ fw'.open) ]_vars

(***************************************************************************)
(* C25: Segment::start() moves the segment from pending to connecting and  *)
(* spawns a worker only if the state is pending; from any other state it   *)
(* returns an error, spawns no worker and changes neither state nor        *)
(* counters; of several concurrent start() calls on one segment at most    *)
(* one succeeds.                                                           *)
(***************************************************************************)
C25_StartOnlyFromPending ==
    [][ \A c \in 1..MaxCallers :
          (probe.op = "segment" /\ probe.result[c] = "none" /\ probe'.result[c] # "none")
          => IF probe.seg.state = "pending"
             THEN /\ probe'.result[c] = "ok"
                  /\ probe'.seg = [probe.seg EXCEPT !.state = "connecting"]
                  /\ probe'.workers = probe.workers + 1
                  /\ \A d \in 1..MaxCallers : probe.result[d] # "ok"
             ELSE /\ probe'.result[c] = "network_error"
                  /\ probe'.seg = probe.seg
                  /\ probe'.workers = probe.workers ]_vars

\* Two calls on a pending segment: one started the worker, the other failed.
C25_Witness ==
    /\ probe.op = "segment"
    /\ probe.seg.state = "connecting"
    /\ probe.workers = 1
    /\ \E c, d \in 1..MaxCallers :
         probe.result[c] = "ok" /\ probe.result[d] = "network_error"

AttemptTurn(i) ==
    /\ i \in SegIdx /\ i \in DOMAIN wk /\ i \in DOMAIN wk'
    /\ wk'[i] # wk[i]
    /\ \/ wk[i].pc = "init"
       \/ wk[i].pc = "retry" /\ wk[i].retries < MAX_RETRIES /\ ~segments[i].stop

C32_TerminalFromTable ==
    [][ (sup.pc = "monitor" /\ sup'.pc \in {"check", "delete", "done"})
        => /\ state' # state =>
                \/ /\ state' = "completed"
                   /\ \A i \in DOMAIN segments' : segments'[i].state = "completed"
                \/ /\ state' = "failed"
                   /\ \A i \in DOMAIN segments' :
                        segments'[i].state \in {"completed", "failed"}
                   /\ \E i \in DOMAIN segments' : segments'[i].state = "failed"
           /\ (\E i \in DOMAIN segments' :
                 segments'[i].state \in {"pending", "connecting", "downloading",
                                         "stalled", "cancelled"})
                => state' = state ]_vars

\* the supervisor ended the download failed over a table with a completed
\* and a failed segment
C32_Witness ==
    /\ state = "failed" /\ sup.pc = "done"
    /\ \E i \in SegIdx : segments[i].state = "completed"
    /\ \E i \in SegIdx : segments[i].state = "failed"

(***************************************************************************)
(* The supervisor's stall handling in the engine: a segment the monitor    *)
(* found stalled is marked stalled; its old worker is stopped and has      *)
(* ended before the new one is started; the restart leaves the segment     *)
(* connecting with its downloaded counter as it was.                       *)
(***************************************************************************)
StallRestart ==
    [][ \A i \in 1..MaxSegs :
          (i \in SegIdx /\ i \in DOMAIN segments' /\ i \in DOMAIN wk /\ i \in DOMAIN wk')
          => /\ (sup.pc = "mark" /\ sup.idx = i /\ sup'.pc = "resume")
                  => segments'[i].state = "stalled"
             /\ (sup.pc = "join" /\ sup.idx = i /\ sup'.pc = "monitor")
                  => /\ segments[i].stop
                     /\ ~Alive(wk[i])
                     /\ wk'[i] = Spawned
                     /\ segments'[i].state = "connecting"
                     /\ segments'[i].downloaded = segments[i].downloaded
             /\ (sup.pc \in {"mark", "resume", "join"} /\ sup.idx = i)
                  => segments'[i].downloaded >= segments[i].downloaded
             /\ (wk'[i].pc = "init" /\ wk[i].pc # "init") => ~Alive(wk[i]) ]_vars

C40_EventuallyTerminal ==
    (sup.pc = "start") ~> (state \in {"completed", "failed"} /\ sup.pc = "done")

C40_Witness ==
    /\ state \in {"completed", "failed"}
    /\ sup.pc = "done"
    /\ Len(segments) > 0
    /\ usr.pc = "idle"

=============================================================================
